---- MODULE Spec2Model ----
(***************************************************************************)
(* Model of the bus tracking system.                                       *)
(*                                                                         *)
(* Server (server/storage.ts, server/routes.ts, shared/schema.ts): the     *)
(* assignments table with the shift resolver getCurrentAndNextShifts, the  *)
(* locations table ("Location Ledger") with updateDriverLocation /         *)
(* setDriverTransmissionStatus / stopDriverTransmission, the location      *)
(* routes and the WebSocket registry driverConnections.                    *)
(*                                                                         *)
(* Client: the viewers (admin and passenger dashboards) with their pull    *)
(* and push of locations, the driver's tab (DriverDashboard with           *)
(* useGeolocation and its shifts query) and the hook useWebSocket.         *)
(*                                                                         *)
(* Text columns holding a time of day are sequences of character codes so  *)
(* that the JavaScript string comparisons of the resolver are modelled as  *)
(* lexicographic comparisons: the digits are 0..9 and ':' is 10 (':' sorts *)
(* after every digit, as in ASCII/UTF-16).                                 *)
(***************************************************************************)
EXTENDS Integers, Sequences, FiniteSets, TLC

VARIABLES
    assignments,       \* rows of table "assignments"
    nextAssignmentId,  \* stands for gen_random_uuid(): next fresh row id
    res,               \* last HTTP response of the assignment routes, with the handler's locals
    locations,         \* rows of table "locations"
    nextLocationId,    \* stands for gen_random_uuid(): next fresh row id
    clock,             \* wall clock read by new Date() / now()
    calls,             \* the concurrent updateDriverLocation calls: not started, suspended after the select, returned
    lastCall,          \* per driver id, the last Ledger write call that completed
    sockets,           \* the server side WebSocket of each connection: readyState and connectionId
    driverConnections, \* the Map connectionId -> WebSocket of routes.ts (0: no entry)
    out,               \* what the last location / WebSocket handler of the server did
    implementation,    \* the dashboard component the viewer has mounted
    activeLocations,   \* the viewer's React state activeLocations
    locationsQuery,    \* the viewer's data of useQuery(['/api/locations'])
    inbox,             \* the events sent to the viewer's socket and not yet handled
    awaiting,          \* the location handler of the server suspended at the await of its storage call
    page,              \* what the driver's browser tab shows
    driverIsTransmitting, \* the state isTransmitting of DriverDashboard
    requests,          \* the requests and messages of the driver's tab the server has not handled yet
    tracking,          \* useGeolocation of the tab: interval and watch running, the isTransmitting their callbacks closed over, stopTracking has run since
    coordinates,       \* the state coordinates of useGeolocation
    reads,             \* the getCurrentPosition calls of forceLocationUpdate that have not called back
    shiftsQuery,       \* the tab's useQuery of .../shifts: data, isFetching, error
    mounted,           \* a component that calls useWebSocket: not yet mounted, mounted, unmounted
    wsCurrent,         \* ws.current of useWebSocket (0: null)
    browserSockets,    \* the WebSocket objects the hook has created
    timers,            \* the reconnect timeouts of the hook that have not fired
    isConnected        \* the state isConnected of useWebSocket

vars == <<assignments, nextAssignmentId, res, locations, nextLocationId, clock, calls, lastCall,
          sockets, driverConnections, out,
          implementation, activeLocations, locationsQuery, inbox, awaiting,
          page, driverIsTransmitting, requests, tracking, coordinates, reads,
          shiftsQuery, mounted, wsCurrent, browserSockets, timers, isConnected>>

shiftVars == <<assignments, nextAssignmentId, res>>
ledgerVars == <<locations, nextLocationId, clock, calls, lastCall>>
serverVars == <<sockets, driverConnections, out>>

viewerVars == <<implementation, activeLocations, locationsQuery, inbox, awaiting>>

\* useWebSocket
hookVars == <<mounted, wsCurrent, browserSockets, timers, isConnected>>

driverVars == <<page, driverIsTransmitting, requests, tracking, coordinates, reads,
                shiftsQuery, hookVars>>

\* the variables outside the two tables and their storage methods
outsideStorage == <<serverVars, viewerVars, driverVars>>

----------------------------------------------------------------------------
(* Bounds *)

MaxAssignments == 2
MaxClock == 1
MaxCalls == 2
MaxSockets == 2
MaxInbox == 2
MaxRequests == 3
MaxReads == 1

----------------------------------------------------------------------------
(* Rows of table users (driver ids that exist) and a driver id that does   *)
(* not exist.                                                              *)

Users == {"d1", "d2"}
UnknownDriver == "dX"
DriverIds == Users \cup {UnknownDriver}

----------------------------------------------------------------------------
(* Strings of digits and ':' and their JavaScript comparison               *)

Colon == 10

Min(a, b) == IF a < b THEN a ELSE b

\* a < b on strings: first differing code unit decides, a proper prefix is smaller
StrLess(a, b) ==
    \E i \in 1..(Min(Len(a), Len(b)) + 1) :
        /\ \A j \in 1..(i - 1) : a[j] = b[j]
        /\ \/ i > Len(a) /\ i <= Len(b)
           \/ i <= Len(a) /\ i <= Len(b) /\ a[i] < b[i]

StrLeq(a, b) == a = b \/ StrLess(a, b)

\* String(n).padStart(2, '0') for 0 <= n <= 59
PadStart2(n) == IF n < 10 THEN <<0, n>> ELSE <<n \div 10, n % 10>>

\* mutant: the hour and minute are not padded to two digits
FormatTime_noPad(h, m) ==
    (IF h < 10 THEN <<h>> ELSE <<h \div 10, h % 10>>) \o <<Colon>> \o
    (IF m < 10 THEN <<m>> ELSE <<m \div 10, m % 10>>)

\* `${HH}:${MM}` of the Guatemala wall clock time
FormatTime(h, m) == PadStart2(h) \o <<Colon>> \o PadStart2(m)

\* wall clock readings (hour, minute) in America/Guatemala
Nows == {<<8, 0>>, <<10, 30>>, <<12, 0>>, <<12, 30>>, <<13, 0>>, <<18, 0>>}

T0800 == <<0, 8, Colon, 0, 0>>
T1200 == <<1, 2, Colon, 0, 0>>
T1300 == <<1, 3, Colon, 0, 0>>
T1700 == <<1, 7, Colon, 0, 0>>
T1030 == <<1, 0, Colon, 3, 0>>
T1230 == <<1, 2, Colon, 3, 0>>
T1800 == <<1, 8, Colon, 0, 0>>

\* (shiftStart, shiftEnd) values sent to POST /api/assignments
ShiftInputs ==
    { <<T0800, T1200>>, <<T1300, T1700>>, <<T0800, T1700>>, <<T1700, T0800>>, <<T1200, T1300>> }

\* assignedDate values: the day the requests are served and the day after
Today == "2025-07-01"
AssignedDates == {Today, "2025-07-02"}

\* the bodies sent to POST /api/assignments: every shift and date for one
\* driver, one shift for the other driver and for the id that matches no user
AssignmentInputs ==
    {a \in [driverId : DriverIds, shift : ShiftInputs, assignedDate : AssignedDates,
            isActive : BOOLEAN] :
        a.driverId # "d1" => (a.shift = <<T0800, T1200>> /\ a.assignedDate = Today)}

----------------------------------------------------------------------------
(* Assignments and the shift resolver                                      *)

Null == [id |-> 0]

NoResponse ==
    [route |-> "none", status |-> 0, driverId |-> "", now |-> <<0, 0>>, currentTime |-> <<>>,
     activeAssignments |-> <<>>, current |-> Null, next |-> Null]

\* mutant: the filter of getActiveAssignmentByDriverId, which also has assigned_date = today
ActiveRows_assignedToday(rows, driverId) ==
    {a \in rows : a.driverId = driverId /\ a.isActive = TRUE /\ a.assignedDate = Today}

\* the rows select ... where driver_id = driverId and is_active = true
ActiveRows(rows, driverId) == {a \in rows : a.driverId = driverId /\ a.isActive = TRUE}

\* the sequences that enumerate set S once each
Enumerations(S) ==
    {s \in [1..Cardinality(S) -> S] : \A i, j \in 1..Cardinality(S) : i # j => s[i] # s[j]}

\* mutant: the query has no order by clause
OrderedByShiftStart_unordered(s) == TRUE

\* order by shift_start: any enumeration with non-decreasing shiftStart
\* (rows with equal shiftStart come in an order the database chooses)
OrderedByShiftStart(s) ==
    \A i, j \in 1..Len(s) : i < j => StrLeq(s[i].shiftStart, s[j].shiftStart)

GetActiveAssignmentsByDriverId(rows, driverId) ==
    {s \in Enumerations(ActiveRows(rows, driverId)) : OrderedByShiftStart(s)}

\* currentTime >= a.shiftStart && currentTime <= a.shiftEnd
Contains(a, currentTime) == StrLeq(a.shiftStart, currentTime) /\ StrLeq(currentTime, a.shiftEnd)

\* the for loop with break: first element of the list whose interval contains currentTime
FindCurrent(list, currentTime) ==
    IF \E i \in 1..Len(list) : Contains(list[i], currentTime)
    THEN list[CHOOSE i \in 1..Len(list) :
                 /\ Contains(list[i], currentTime)
                 /\ \A j \in 1..(i - 1) : ~Contains(list[j], currentTime)]
    ELSE Null

\* mutant: the filter keeps shifts that start at currentTime (>= instead of >)
FutureShifts_inclusive(list, currentTime) == SelectSeq(list, LAMBDA a : StrLeq(currentTime, a.shiftStart))

\* activeAssignments.filter(a => a.shiftStart > currentTime)
FutureShifts(list, currentTime) == SelectSeq(list, LAMBDA a : StrLess(currentTime, a.shiftStart))

\* mutant: the wraparound takes the last shift of the day instead of the first
FindNext_wrapLast(list, currentTime) ==
    IF Len(FutureShifts(list, currentTime)) > 0
    THEN FutureShifts(list, currentTime)[1]
    ELSE list[Len(list)]

\* futureShifts[0] if there is one, else activeAssignments[0] (cycle)
FindNext(list, currentTime) ==
    IF Len(FutureShifts(list, currentTime)) > 0
    THEN FutureShifts(list, currentTime)[1]
    ELSE list[1]

\* the value of activeAssignments[0] on an empty array
Undefined == [id |-> -1]

\* mutant: no early return for an empty list, next is activeAssignments[0] = undefined
GetCurrentAndNextShifts_noEmptyCheck(list, currentTime) ==
    [current |-> FindCurrent(list, currentTime),
     next |-> IF Len(FutureShifts(list, currentTime)) > 0
              THEN FutureShifts(list, currentTime)[1]
              ELSE IF Len(list) = 0 THEN Undefined ELSE list[1]]

\* { current, next } computed from the ordered list
GetCurrentAndNextShifts(list, currentTime) ==
    IF Len(list) = 0
    THEN [current |-> Null, next |-> Null]
    ELSE [current |-> FindCurrent(list, currentTime), next |-> FindNext(list, currentTime)]

\* GET /api/assignments/driver/:driverId/shifts
GetShifts(driverId, now) ==
    /\ \E list \in GetActiveAssignmentsByDriverId(assignments, driverId) :
          LET currentTime == FormatTime(now[1], now[2])
              shifts == GetCurrentAndNextShifts(list, currentTime)
          IN res' = [route |-> "shifts", status |-> 200, driverId |-> driverId,
                     now |-> now, currentTime |-> currentTime, activeAssignments |-> list,
                     current |-> shifts.current, next |-> shifts.next]
    /\ UNCHANGED <<assignments, nextAssignmentId>>
    /\ UNCHANGED <<ledgerVars, outsideStorage>>

\* POST /api/assignments: storage.createAssignment; the insert fails on the
\* foreign key driver_id -> users.id and the route answers 400
CreateAssignment(driverId, shift, assignedDate, isActive) ==
    /\ nextAssignmentId <= MaxAssignments
    /\ IF driverId \in Users
       THEN /\ assignments' = assignments \cup
                  {[id |-> nextAssignmentId, driverId |-> driverId, assignedDate |-> assignedDate,
                    shiftStart |-> shift[1], shiftEnd |-> shift[2], isActive |-> isActive]}
            /\ nextAssignmentId' = nextAssignmentId + 1
            /\ res' = [NoResponse EXCEPT !.route = "createAssignment", !.status = 200]
       ELSE /\ UNCHANGED <<assignments, nextAssignmentId>>
            /\ res' = [NoResponse EXCEPT !.route = "createAssignment", !.status = 400]
    /\ UNCHANGED <<ledgerVars, outsideStorage>>

\* DELETE /api/assignments/:id
DeleteAssignment(id) ==
    /\ assignments' = {a \in assignments : a.id # id}
    /\ res' = [NoResponse EXCEPT !.route = "deleteAssignment",
                                 !.status = IF \E a \in assignments : a.id = id THEN 200 ELSE 404]
    /\ UNCHANGED nextAssignmentId
    /\ UNCHANGED <<ledgerVars, outsideStorage>>


----------------------------------------------------------------------------
(* The locations table and its storage methods                             *)

\* (latitude, longitude) values sent by drivers
Coordinates == {<<"10.5", "-74.2">>, <<"10.6", "-74.3">>}

NoCall ==
    [op |-> "none", latitude |-> "", longitude |-> "", isTransmitting |-> FALSE,
     upserts |-> 0, same |-> FALSE]

\* select ... from locations where driver_id = driverId
RowsOfDriver(rows, driverId) == {r \in rows : r.driverId = driverId}

\* mutant: the result of the select is ignored, no existing row is ever seen
FirstRow_none(rows) == {Null}

\* const [existingLocation] = await db.select()...: the first row the
\* database returns, undefined (Null) when there is none; of the row only
\* its id is used afterwards
FirstRow(rows) == IF rows = {} THEN {Null} ELSE {[id |-> r.id] : r \in rows}

\* mutant: the update leaves the timestamp column alone
UpdateRow_keepTimestamp(rows, id, loc, now) ==
    {IF r.id = id
     THEN [r EXCEPT !.latitude = loc.latitude, !.longitude = loc.longitude,
                    !.isTransmitting = loc.isTransmitting]
     ELSE r : r \in rows}

\* mutant: the update sets the flag and the timestamp but not the coordinates
UpdateRow_keepCoordinates(rows, id, loc, now) ==
    {IF r.id = id
     THEN [r EXCEPT !.isTransmitting = loc.isTransmitting, !.timestamp = now]
     ELSE r : r \in rows}

\* update locations set latitude, longitude, is_transmitting, timestamp where id = id
UpdateRow(rows, id, loc, now) ==
    {IF r.id = id
     THEN [r EXCEPT !.latitude = loc.latitude, !.longitude = loc.longitude,
                    !.isTransmitting = loc.isTransmitting, !.timestamp = now]
     ELSE r : r \in rows}

\* insert into locations values (insertLocation) returning *: id and
\* timestamp take their column defaults
InsertRow(rows, id, loc, now) ==
    rows \cup {[id |-> id, driverId |-> loc.driverId, latitude |-> loc.latitude,
                longitude |-> loc.longitude, isTransmitting |-> loc.isTransmitting,
                timestamp |-> now]}

\* mutant: the flag update is not restricted to the rows of the driver
SetFlag_allRows(rows, driverId, isTransmitting, now) ==
    {[r EXCEPT !.isTransmitting = isTransmitting, !.timestamp = now] : r \in rows}

\* mutant: the update flips the flag of the rows instead of setting it
SetFlag_toggle(rows, driverId, isTransmitting, now) ==
    {IF r.driverId = driverId
     THEN [r EXCEPT !.isTransmitting = ~r.isTransmitting, !.timestamp = now]
     ELSE r : r \in rows}

\* update locations set is_transmitting, timestamp where driver_id = driverId
SetFlag(rows, driverId, isTransmitting, now) ==
    {IF r.driverId = driverId
     THEN [r EXCEPT !.isTransmitting = isTransmitting, !.timestamp = now]
     ELSE r : r \in rows}

\* getDriverLocation: the first row of the driver, undefined (Null) if none
GetDriverLocation(rows, driverId) ==
    IF RowsOfDriver(rows, driverId) = {} THEN {Null} ELSE RowsOfDriver(rows, driverId)

\* getAllActiveLocations: select ... where is_transmitting = true
GetAllActiveLocations(rows) == {r \in rows : r.isTransmitting = TRUE}

\* the call recorded as the last completed one for its driver
Recorded(prev, op, loc) ==
    [op |-> op, latitude |-> loc.latitude, longitude |-> loc.longitude,
     isTransmitting |-> loc.isTransmitting,
     upserts |-> IF op = "upsert" THEN Min(prev.upserts + 1, 2) ELSE prev.upserts,
     same |-> /\ prev.op = op
              /\ prev.latitude = loc.latitude /\ prev.longitude = loc.longitude
              /\ prev.isTransmitting = loc.isTransmitting]

\* a call of updateDriverLocation that has not started, and one that has returned
IdleCall == [pc |-> "idle", insertLocation |-> Null, existingLocation |-> Null]
ReturnedCall == [pc |-> "returned", insertLocation |-> Null, existingLocation |-> Null]

NoCallInFlight == \A c \in 1..MaxCalls : calls[c].pc # "selected"

\* mutant: the else branch runs even though a row was found
ApplyUpsert_alwaysInsert(existingLocation, loc) ==
    IF loc.driverId \in Users
    THEN /\ locations' = InsertRow(locations, nextLocationId, loc, clock)
         /\ nextLocationId' = nextLocationId + 1
         /\ lastCall' = [lastCall EXCEPT ![loc.driverId] = Recorded(@, "upsert", loc)]
    ELSE UNCHANGED <<locations, nextLocationId, lastCall>>

\* updateDriverLocation after the select: update of the row found, or insert;
\* the insert throws on the foreign key driver_id -> users.id and leaves
\* the table as it was
ApplyUpsert(existingLocation, loc) ==
    IF existingLocation # Null
    THEN /\ locations' = UpdateRow(locations, existingLocation.id, loc, clock)
         /\ UNCHANGED nextLocationId
         /\ lastCall' = [lastCall EXCEPT ![loc.driverId] = Recorded(@, "upsert", loc)]
    ELSE IF loc.driverId \in Users
    THEN /\ locations' = InsertRow(locations, nextLocationId, loc, clock)
         /\ nextLocationId' = nextLocationId + 1
         /\ lastCall' = [lastCall EXCEPT ![loc.driverId] = Recorded(@, "upsert", loc)]
    ELSE UNCHANGED <<locations, nextLocationId, lastCall>>

\* updateDriverLocation run from call to return with no other handler in between
UpdateDriverLocation(loc) ==
    /\ NoCallInFlight
    /\ \E existingLocation \in FirstRow(RowsOfDriver(locations, loc.driverId)) :
          ApplyUpsert(existingLocation, loc)
    /\ UNCHANGED <<clock, calls>>
    /\ UNCHANGED <<shiftVars, outsideStorage>>

\* updateDriverLocation up to its first await: the select of the existing row
UpsertSelect(c, loc) ==
    /\ calls[c].pc = "idle"
    /\ \E existingLocation \in FirstRow(RowsOfDriver(locations, loc.driverId)) :
          calls' = [calls EXCEPT ![c] = [pc |-> "selected", insertLocation |-> loc,
                                         existingLocation |-> existingLocation]]
    /\ UNCHANGED <<locations, nextLocationId, clock, lastCall>>
    /\ UNCHANGED <<shiftVars, outsideStorage>>

\* updateDriverLocation resumed after the select
UpsertWrite(c) ==
    /\ calls[c].pc = "selected"
    /\ ApplyUpsert(calls[c].existingLocation, calls[c].insertLocation)
    /\ calls' = [calls EXCEPT ![c] = ReturnedCall]
    /\ UNCHANGED clock
    /\ UNCHANGED <<shiftVars, outsideStorage>>

\* setDriverTransmissionStatus: one update statement
SetDriverTransmissionStatus(driverId, isTransmitting) ==
    /\ locations' = SetFlag(locations, driverId, isTransmitting, clock)
    /\ lastCall' = [lastCall EXCEPT ![driverId] =
                       Recorded(@, "setTransmitting",
                                [latitude |-> "", longitude |-> "", isTransmitting |-> isTransmitting])]
    /\ UNCHANGED <<nextLocationId, clock, calls>>
    /\ UNCHANGED <<shiftVars, outsideStorage>>

\* stopDriverTransmission: one update statement
StopDriverTransmission(driverId) ==
    /\ locations' = SetFlag(locations, driverId, FALSE, clock)
    /\ lastCall' = [lastCall EXCEPT ![driverId] =
                       Recorded(@, "stop",
                                [latitude |-> "", longitude |-> "", isTransmitting |-> FALSE])]
    /\ UNCHANGED <<nextLocationId, clock, calls>>
    /\ UNCHANGED <<shiftVars, outsideStorage>>

\* time passes
Tick ==
    /\ clock < MaxClock
    /\ clock' = clock + 1
    /\ UNCHANGED <<locations, nextLocationId, calls, lastCall>>
    /\ UNCHANGED <<shiftVars, outsideStorage>>

\* the InsertLocation values of the requests
InsertLocations ==
    {[driverId |-> d, latitude |-> xy[1], longitude |-> xy[2], isTransmitting |-> b] :
        d \in DriverIds, xy \in Coordinates, b \in BOOLEAN}


----------------------------------------------------------------------------
(* The WebSocket connections, the registry driverConnections and the       *)
(* handlers of routes.ts that write the Ledger and broadcast                *)

\* the values Math.random().toString(36).substring(7) can take: nothing
\* makes the value of a new connection differ from the ones in use
ConnectionIds == {"k1", "k2"}

NoSocket == [readyState |-> "none", connectionId |-> ""]

\* a request body or WebSocket message that is not of the expected shape
Malformed == [driverId |-> "", latitude |-> "", longitude |-> "", isTransmitting |-> FALSE]

NoOut ==
    [handler |-> "none", driverId |-> "", malformed |-> FALSE, wrote |-> FALSE,
     status |-> 0, event |-> "none", sentTo |-> {}]

\* the entries of the Map
Entries == {id \in ConnectionIds : driverConnections[id] # 0}

\* driverConnections.forEach((ws) => { if (ws.readyState === WebSocket.OPEN) ws.send(...) })
SendToAll ==
    {driverConnections[id] : id \in {i \in Entries : sockets[driverConnections[i]].readyState = "open"}}

\* driverConnections.forEach((connection, id) => {
\*   if (id !== connectionId && connection.readyState === WebSocket.OPEN) connection.send(...) })
SendToOthers(connectionId) ==
    {driverConnections[id] :
        id \in {i \in Entries : i # connectionId /\ sockets[driverConnections[i]].readyState = "open"}}

\* mutant: the insert never throws
UpsertThrows_never(existingLocation, loc) == FALSE

\* the insert of updateDriverLocation throws (foreign key driver_id -> users.id)
UpsertThrows(existingLocation, loc) == existingLocation = Null /\ loc.driverId \notin Users

\* wss.on('connection'): the socket is stored under a random connectionId
\* and is sent { type: 'connected', connectionId }
Connection(s, connectionId) ==
    /\ sockets[s].readyState = "none"
    /\ sockets' = [sockets EXCEPT ![s] = [readyState |-> "open", connectionId |-> connectionId]]
    /\ driverConnections' = [driverConnections EXCEPT ![connectionId] = s]
    /\ out' = [NoOut EXCEPT !.handler = "connection", !.event = "connected",
                            !.sentTo = {s}]
    /\ UNCHANGED <<shiftVars, ledgerVars>>

\* the closing handshake has started or the transport is gone: readyState is
\* no longer OPEN, the 'close' event has not been emitted yet
SocketClosing(s) ==
    /\ sockets[s].readyState = "open"
    /\ sockets' = [sockets EXCEPT ![s].readyState = "closing"]
    /\ UNCHANGED <<driverConnections, out>>
    /\ UNCHANGED <<shiftVars, ledgerVars>>

\* mutant: the close of a connection switches the transmitting flags off
SocketClose_stopsTransmission(s) ==
    /\ sockets[s].readyState \in {"open", "closing"}
    /\ sockets' = [sockets EXCEPT ![s] = [readyState |-> "closed", connectionId |-> ""]]
    /\ driverConnections' = [driverConnections EXCEPT ![sockets[s].connectionId] = 0]
    /\ out' = [NoOut EXCEPT !.handler = "close"]
    /\ locations' = {[r EXCEPT !.isTransmitting = FALSE] : r \in locations}
    /\ UNCHANGED <<nextLocationId, clock, calls, lastCall>>
    /\ UNCHANGED shiftVars

\* ws.on('close'): driverConnections.delete(connectionId)
SocketClose(s) ==
    /\ sockets[s].readyState \in {"open", "closing"}
    /\ sockets' = [sockets EXCEPT ![s] = [readyState |-> "closed", connectionId |-> ""]]
    /\ driverConnections' = [driverConnections EXCEPT ![sockets[s].connectionId] = 0]
    /\ out' = [NoOut EXCEPT !.handler = "close"]
    /\ UNCHANGED <<shiftVars, ledgerVars>>

\* POST /api/locations: insertLocationSchema.parse, storage.updateDriverLocation,
\* broadcast of locationUpdate to every open connection, res.json; any
\* exception is answered with status 400
PostLocations(body) ==
    /\ IF body = Malformed
       THEN /\ out' = [NoOut EXCEPT !.handler = "postLocations", !.malformed = TRUE, !.status = 400]
            /\ UNCHANGED <<locations, nextLocationId, lastCall>>
       ELSE \E existingLocation \in FirstRow(RowsOfDriver(locations, body.driverId)) :
               /\ ApplyUpsert(existingLocation, body)
               /\ out' = IF UpsertThrows(existingLocation, body)
                         THEN [NoOut EXCEPT !.handler = "postLocations", !.driverId = body.driverId,
                                            !.status = 400]
                         ELSE [NoOut EXCEPT !.handler = "postLocations", !.driverId = body.driverId,
                                            !.wrote = TRUE, !.status = 200,
                                            !.event = "locationUpdate", !.sentTo = SendToAll]
    /\ UNCHANGED <<clock, calls, sockets, driverConnections>>
    /\ UNCHANGED shiftVars

\* POST /api/locations/stop-transmission: 400 without driverId, else
\* storage.stopDriverTransmission, broadcast of transmissionStopped to every
\* open connection, removal of the entries that are not open, res.json
PostStopTransmission(driverId) ==
    /\ IF driverId = Malformed.driverId
       THEN /\ out' = [NoOut EXCEPT !.handler = "stopTransmission", !.malformed = TRUE, !.status = 400]
            /\ UNCHANGED <<locations, lastCall, driverConnections>>
       ELSE /\ locations' = SetFlag(locations, driverId, FALSE, clock)
            /\ lastCall' = [lastCall EXCEPT ![driverId] =
                               Recorded(@, "stop",
                                        [latitude |-> "", longitude |-> "", isTransmitting |-> FALSE])]
            /\ out' = [NoOut EXCEPT !.handler = "stopTransmission", !.driverId = driverId,
                                    !.wrote = TRUE, !.status = 200,
                                    !.event = "transmissionStopped", !.sentTo = SendToAll]
            /\ driverConnections' =
                  [id \in ConnectionIds |->
                      IF id \in Entries /\ sockets[driverConnections[id]].readyState # "open"
                      THEN 0 ELSE driverConnections[id]]
    /\ UNCHANGED <<nextLocationId, clock, calls, sockets>>
    /\ UNCHANGED shiftVars

\* ws.on('message') with { type: 'locationUpdate', location }:
\* storage.updateDriverLocation(data.location), then the message is sent to
\* the other open connections; an exception is caught and logged
WsLocationUpdate(s, location) ==
    /\ sockets[s].readyState = "open"
    /\ location # Malformed
    /\ \E existingLocation \in FirstRow(RowsOfDriver(locations, location.driverId)) :
          /\ ApplyUpsert(existingLocation, location)
          /\ out' = IF UpsertThrows(existingLocation, location)
                    THEN [NoOut EXCEPT !.handler = "wsLocationUpdate",
                                       !.driverId = location.driverId]
                    ELSE [NoOut EXCEPT !.handler = "wsLocationUpdate",
                                       !.driverId = location.driverId, !.wrote = TRUE,
                                       !.event = "locationUpdate",
                                       !.sentTo = SendToOthers(sockets[s].connectionId)]
    /\ UNCHANGED <<clock, calls, sockets, driverConnections>>
    /\ UNCHANGED shiftVars

\* mutant: the status change is written but not broadcast
WsTransmissionStatus_noBroadcast(s, driverId, isTransmitting) ==
    /\ sockets[s].readyState = "open"
    /\ locations' = SetFlag(locations, driverId, isTransmitting, clock)
    /\ lastCall' = [lastCall EXCEPT ![driverId] =
                       Recorded(@, "setTransmitting",
                                [latitude |-> "", longitude |-> "", isTransmitting |-> isTransmitting])]
    /\ out' = [NoOut EXCEPT !.handler = "wsTransmissionStatus", !.driverId = driverId,
                            !.wrote = TRUE]
    /\ UNCHANGED <<nextLocationId, clock, calls, sockets, driverConnections>>
    /\ UNCHANGED shiftVars

\* ws.on('message') with { type: 'transmissionStatus', driverId, isTransmitting }:
\* storage.setDriverTransmissionStatus, then transmissionStatusUpdate is sent
\* to every open connection
WsTransmissionStatus(s, driverId, isTransmitting) ==
    /\ sockets[s].readyState = "open"
    /\ locations' = SetFlag(locations, driverId, isTransmitting, clock)
    /\ lastCall' = [lastCall EXCEPT ![driverId] =
                       Recorded(@, "setTransmitting",
                                [latitude |-> "", longitude |-> "", isTransmitting |-> isTransmitting])]
    /\ out' = [NoOut EXCEPT !.handler = "wsTransmissionStatus", !.driverId = driverId,
                            !.wrote = TRUE,
                            !.event = "transmissionStatusUpdate", !.sentTo = SendToAll]
    /\ UNCHANGED <<nextLocationId, clock, calls, sockets, driverConnections>>
    /\ UNCHANGED shiftVars

\* ws.on('message') with a message that JSON.parse rejects, or a
\* locationUpdate without location (TypeError before any query): the
\* exception is caught and logged, nothing is written or sent
WsMalformed(s) ==
    /\ sockets[s].readyState = "open"
    /\ out' = [NoOut EXCEPT !.handler = "wsMessage", !.malformed = TRUE]
    /\ UNCHANGED <<sockets, driverConnections>>
    /\ UNCHANGED <<shiftVars, ledgerVars>>

\* the driver ids and InsertLocation values of the requests to the server
ServerDrivers == {"d1", UnknownDriver}

ServerLocations ==
    {loc \in InsertLocations :
        loc.driverId \in ServerDrivers /\ loc.latitude = "10.5" /\ loc.isTransmitting}

----------------------------------------------------------------------------
(* A viewer: one dashboard component with its WebSocket, its React state    *)
(* activeLocations and its query of GET /api/locations                      *)

\* admin-dashboard.tsx, the AdminDashboard of part_008 (part_011 has the
\* same handler) and the PassengerDashboard of part_012
Implementations == {"adminDashboard", "adminPart008", "passengerPart012"}

\* the server side socket of the viewer
ViewerSocket == 1

\* what a viewer keeps of a Location
Entry(driverId, isTransmitting) == [driverId |-> driverId, isTransmitting |-> isTransmitting]

\* setActiveLocations(prev => ...): findIndex by driverId, replace or push
UpsertEntry(prev, data) == {e \in prev : e.driverId # data.driverId} \cup {data}

\* setActiveLocations(prev => prev.filter(loc => loc.driverId !== driverId))
RemoveEntry(prev, driverId) == {e \in prev : e.driverId # driverId}

\* the component mounts: empty state, useWebSocket starts to connect
Mount(impl) ==
    /\ implementation = "none"
    /\ implementation' = impl
    /\ UNCHANGED <<activeLocations, locationsQuery, inbox, awaiting>>
    /\ UNCHANGED <<shiftVars, ledgerVars, serverVars, driverVars>>

\* the server accepts the viewer's WebSocket
ViewerConnect ==
    /\ implementation # "none"
    /\ \E id \in ConnectionIds : Connection(ViewerSocket, id)
    /\ UNCHANGED <<viewerVars, driverVars>>

\* the event the last handler broadcast, as the viewer receives it
Pushed(o, data) ==
    IF ViewerSocket \in o.sentTo
    THEN Append(inbox, [type |-> o.event, data |-> data])
    ELSE inbox

\* no handler is suspended
NoAwait == [handler |-> "", status |-> 0, event |-> "", data |-> Entry("", FALSE)]

\* POST /api/locations up to the return of `await storage.updateDriverLocation`:
\* the row is written, the handler has not broadcast yet
ViewerPostLocations(body) ==
    /\ awaiting = NoAwait
    /\ \E existingLocation \in FirstRow(RowsOfDriver(locations, body.driverId)) :
          /\ ApplyUpsert(existingLocation, body)
          /\ IF UpsertThrows(existingLocation, body)
             THEN /\ out' = [NoOut EXCEPT !.handler = "postLocations",
                                          !.driverId = body.driverId, !.status = 400]
                  /\ UNCHANGED awaiting
             ELSE /\ awaiting' = [handler |-> "postLocations", status |-> 200,
                                  event |-> "locationUpdate",
                                  data |-> Entry(body.driverId, body.isTransmitting)]
                  /\ UNCHANGED out
    /\ UNCHANGED <<clock, calls, sockets, driverConnections>>
    /\ UNCHANGED <<implementation, activeLocations, locationsQuery, inbox>>
    /\ UNCHANGED <<shiftVars, driverVars>>

\* mutant: stopDriverTransmission is not awaited, the handler goes on before the write
ViewerPostStopTransmission_notAwaited(driverId) ==
    /\ awaiting = NoAwait
    /\ awaiting' = [handler |-> "stopTransmission", status |-> 200,
                    event |-> "transmissionStopped", data |-> Entry(driverId, FALSE)]
    /\ UNCHANGED <<locations, lastCall, nextLocationId, clock, calls, sockets, driverConnections, out>>
    /\ UNCHANGED <<implementation, activeLocations, locationsQuery, inbox>>
    /\ UNCHANGED <<shiftVars, driverVars>>

\* POST /api/locations/stop-transmission up to the return of
\* `await storage.stopDriverTransmission`
ViewerPostStopTransmission(driverId) ==
    /\ awaiting = NoAwait
    /\ locations' = SetFlag(locations, driverId, FALSE, clock)
    /\ lastCall' = [lastCall EXCEPT ![driverId] =
                       Recorded(@, "stop",
                                [latitude |-> "", longitude |-> "", isTransmitting |-> FALSE])]
    /\ awaiting' = [handler |-> "stopTransmission", status |-> 200,
                    event |-> "transmissionStopped", data |-> Entry(driverId, FALSE)]
    /\ UNCHANGED <<nextLocationId, clock, calls, sockets, driverConnections, out>>
    /\ UNCHANGED <<implementation, activeLocations, locationsQuery, inbox>>
    /\ UNCHANGED <<shiftVars, driverVars>>

\* ws.on('message') with { type: 'transmissionStatus', ... } up to the return
\* of `await storage.setDriverTransmissionStatus`; the message comes from a
\* driver's tab whose socket is not among the sockets shown here
ViewerWsTransmissionStatus(driverId, isTransmitting) ==
    /\ awaiting = NoAwait
    /\ locations' = SetFlag(locations, driverId, isTransmitting, clock)
    /\ lastCall' = [lastCall EXCEPT ![driverId] =
                       Recorded(@, "setTransmitting",
                                [latitude |-> "", longitude |-> "", isTransmitting |-> isTransmitting])]
    /\ awaiting' = [handler |-> "wsTransmissionStatus", status |-> NoOut.status,
                    event |-> "transmissionStatusUpdate",
                    data |-> Entry(driverId, isTransmitting)]
    /\ UNCHANGED <<nextLocationId, clock, calls, sockets, driverConnections, out>>
    /\ UNCHANGED <<implementation, activeLocations, locationsQuery, inbox>>
    /\ UNCHANGED <<shiftVars, driverVars>>

\* the suspended handler goes on after its await: the event is sent to every
\* open connection (stop-transmission also removes the entries that are not
\* open) and the response is written
Broadcast ==
    /\ awaiting # NoAwait
    /\ Len(inbox) < MaxInbox
    /\ out' = [NoOut EXCEPT !.handler = awaiting.handler, !.driverId = awaiting.data.driverId,
                            !.wrote = TRUE, !.status = awaiting.status,
                            !.event = awaiting.event, !.sentTo = SendToAll]
    /\ driverConnections' =
          IF awaiting.handler = "stopTransmission"
          THEN [id \in ConnectionIds |->
                   IF id \in Entries /\ sockets[driverConnections[id]].readyState # "open"
                   THEN 0 ELSE driverConnections[id]]
          ELSE driverConnections
    /\ inbox' = Pushed(out', awaiting.data)
    /\ awaiting' = NoAwait
    /\ UNCHANGED sockets
    /\ UNCHANGED <<implementation, activeLocations, locationsQuery>>
    /\ UNCHANGED <<shiftVars, ledgerVars, driverVars>>

\* the types on which onMessage refetches the query
StatusTypes == {"transmissionStatusUpdate", "transmissionStatus", "transmissionStopped"}

\* onMessage of the three components applied to the state activeLocations
OnMessageState(impl, prev, message) ==
    IF message.type = "locationUpdate" THEN UpsertEntry(prev, message.data)
    ELSE IF impl = "adminPart008" /\ message.type = "transmissionStopped"
    THEN RemoveEntry(prev, message.data.driverId)
    ELSE prev

\* GET /api/locations: the rows with isTransmitting
FetchLocations ==
    {Entry(r.driverId, r.isTransmitting) : r \in GetAllActiveLocations(locations)}

\* useEffect(() => { if (locations.length > 0) setActiveLocations(locations) }, [locations])
\* of part_012; the effect runs when the data of the query has changed
LocationsEffect(impl, prev, oldData, newData) ==
    IF impl = "passengerPart012" /\ newData # oldData /\ newData # {}
    THEN newData
    ELSE prev

\* the viewer handles the first event of its socket
OnMessage ==
    /\ inbox # <<>>
    /\ inbox' = Tail(inbox)
    /\ activeLocations' = OnMessageState(implementation, activeLocations, Head(inbox))
    /\ UNCHANGED <<implementation, locationsQuery, awaiting>>
    /\ UNCHANGED <<shiftVars, ledgerVars, serverVars, driverVars>>

\* the query refetches (refetchInterval, or refetchQueries of onMessage) and
\* the component renders with the new data
Refetch ==
    /\ implementation # "none"
    /\ locationsQuery' = FetchLocations
    /\ activeLocations' =
          LocationsEffect(implementation, activeLocations, locationsQuery, FetchLocations)
    /\ UNCHANGED <<implementation, inbox, awaiting>>
    /\ UNCHANGED <<shiftVars, ledgerVars, serverVars, driverVars>>

\* the InsertLocation values posted while a viewer watches
ViewerLocations ==
    {loc \in InsertLocations :
        /\ loc.driverId \in Users
        /\ loc.latitude = "10.5"
        /\ loc.driverId # "d1" => loc.isTransmitting}

\* the driver whose transmission is switched while a viewer watches
ViewerDrivers == {"d1"}

----------------------------------------------------------------------------
(* The browser tab of a driver: DriverDashboard, AuthManager.logout and     *)
(* the requests the tab has sent                                            *)

\* the driver who is logged in, and the server side socket of the tab
CurrentUser == "d1"
DriverSocket == 2

\* coordinates of useGeolocation before the first position, and a position of the device
NoCoordinates == <<>>
Position == <<"10.5", "-74.2">>

\* the body of the POST /api/locations of the tab
DriverLocation(coords, isTransmitting) ==
    [driverId |-> CurrentUser, latitude |-> coords[1], longitude |-> coords[2],
     isTransmitting |-> isTransmitting]

Request(kind, isTransmitting) ==
    [kind |-> kind, isTransmitting |-> isTransmitting, coords |-> Position]

\* sendMessage: the message is sent only if the socket is open
SendMessage(queue, kind, isTransmitting) ==
    IF sockets[DriverSocket].readyState = "open"
    THEN Append(queue, Request(kind, isTransmitting))
    ELSE queue

\* useQuery of the shifts before the component is rendered
NoQuery == [data |-> Undefined, isFetching |-> FALSE, error |-> FALSE]

\* the driver logs in: App renders DriverDashboard, isTransmitting is false,
\* the shifts query (enabled: !!currentUser?.id) starts its first fetch
Login ==
    /\ page = "login"
    /\ page' = "dashboard"
    /\ shiftsQuery' = [NoQuery EXCEPT !.isFetching = TRUE]
    /\ UNCHANGED <<driverIsTransmitting, requests, tracking, coordinates, reads, hookVars>>
    /\ UNCHANGED <<shiftVars, ledgerVars, serverVars, viewerVars>>

\* the server accepts the WebSocket that useWebSocket opened
DriverConnect ==
    /\ page = "dashboard"
    /\ \E id \in ConnectionIds : Connection(DriverSocket, id)
    /\ UNCHANGED <<viewerVars, driverVars>>

\* handleToggleTransmission while not transmitting: startTracking() of this
\* render, whose callbacks reach onLocationUpdate of this render and with it
\* the isTransmitting of this render; setIsTransmitting(true); sendMessage
StartTransmission ==
    /\ page = "dashboard"
    /\ ~driverIsTransmitting
    /\ Len(requests) < MaxRequests
    /\ tracking' = [active |-> TRUE, isTransmitting |-> driverIsTransmitting,
                     stopped |-> FALSE]
    /\ driverIsTransmitting' = TRUE
    /\ requests' = SendMessage(requests, "wsTransmissionStatus", TRUE)
    /\ UNCHANGED <<page, coordinates, reads, shiftsQuery, hookVars>>
    /\ UNCHANGED <<shiftVars, ledgerVars, serverVars, viewerVars>>

\* a position of getCurrentLocationAndSend (first read, interval) or of
\* watchPosition: handleSuccess sets coordinates and calls onLocationUpdate,
\* which posts and sends `if (isTransmitting && currentUser)`
LocationSample ==
    /\ page = "dashboard"
    /\ tracking.active
    /\ tracking.isTransmitting => Len(requests) + 2 <= MaxRequests
    /\ coordinates' = Position
    /\ requests' = IF tracking.isTransmitting
                   THEN SendMessage(Append(requests, Request("postLocations", TRUE)),
                                    "wsLocationUpdate", TRUE)
                   ELSE requests
    /\ UNCHANGED <<page, driverIsTransmitting, tracking, reads, shiftsQuery, hookVars>>
    /\ UNCHANGED <<shiftVars, ledgerVars, serverVars, viewerVars>>

\* forceLocationUpdate ("Obtener Ubicación Actual"): getCurrentPosition is called
ForceLocationUpdate ==
    /\ page = "dashboard"
    /\ reads < MaxReads
    /\ reads' = reads + 1
    /\ UNCHANGED <<page, driverIsTransmitting, requests, tracking, coordinates, shiftsQuery, hookVars>>
    /\ UNCHANGED <<shiftVars, ledgerVars, serverVars, viewerVars>>

\* the success callback of forceLocationUpdate: POST /api/locations with
\* isTransmitting: true
ForcedPosition ==
    /\ page \in {"dashboard", "loggingOut"}
    /\ reads > 0
    /\ Len(requests) < MaxRequests
    /\ reads' = reads - 1
    /\ requests' = Append(requests, Request("postLocations", TRUE))
    /\ UNCHANGED <<page, driverIsTransmitting, tracking, coordinates, shiftsQuery, hookVars>>
    /\ UNCHANGED <<shiftVars, ledgerVars, serverVars, viewerVars>>

\* handleToggleTransmission while transmitting: stopTracking(), the
\* transmissionStatus message and POST /api/locations with isTransmitting
\* false and the coordinates of the hook or "0"
StopTransmission ==
    /\ page = "dashboard"
    /\ driverIsTransmitting
    /\ Len(requests) + 2 <= MaxRequests
    /\ driverIsTransmitting' = FALSE
    /\ tracking' = [tracking EXCEPT !.active = FALSE, !.stopped = TRUE]
    /\ requests' = Append(SendMessage(requests, "wsTransmissionStatus", FALSE),
                          [Request("postLocations", FALSE) EXCEPT
                              !.coords = IF coordinates = NoCoordinates
                                         THEN <<"0", "0">> ELSE coordinates])
    /\ UNCHANGED <<page, coordinates, reads, shiftsQuery, hookVars>>
    /\ UNCHANGED <<shiftVars, ledgerVars, serverVars, viewerVars>>

\* handleLogout: stopTracking() and setIsTransmitting(false) if transmitting,
\* then authManager.logout() posts stop-transmission and awaits the answer
Logout ==
    /\ page = "dashboard"
    /\ Len(requests) < MaxRequests
    /\ driverIsTransmitting' = FALSE
    /\ tracking' = IF driverIsTransmitting
                   THEN [tracking EXCEPT !.active = FALSE, !.stopped = TRUE]
                   ELSE tracking
    /\ requests' = Append(requests, Request("stopTransmission", FALSE))
    /\ page' = "loggingOut"
    /\ UNCHANGED <<coordinates, reads, shiftsQuery, hookVars>>
    /\ UNCHANGED <<shiftVars, ledgerVars, serverVars, viewerVars>>

\* authManager.logout() after the await: setCurrentUser(null), App renders Login
LoggedOut ==
    /\ page = "loggingOut"
    /\ \A i \in 1..Len(requests) : requests[i].kind # "stopTransmission"
    /\ page' = "loggedOut"
    /\ UNCHANGED <<driverIsTransmitting, requests, tracking, coordinates, reads, shiftsQuery, hookVars>>
    /\ UNCHANGED <<shiftVars, ledgerVars, serverVars, viewerVars>>

\* the driver closes the tab or the browser unloads the page: no component
\* and no module of the client listens for it, nothing is sent
ClosePage ==
    /\ page \in {"dashboard", "loggingOut"}
    /\ page' = "closed"
    /\ UNCHANGED <<driverIsTransmitting, requests, tracking, coordinates, reads, shiftsQuery, hookVars>>
    /\ UNCHANGED <<shiftVars, ledgerVars, serverVars, viewerVars>>

\* the socket of a tab that is gone closes, after the messages sent on it
DriverSocketClose ==
    /\ page \in {"loggedOut", "closed"}
    /\ \A i \in 1..Len(requests) : requests[i].kind \in {"postLocations", "stopTransmission"}
    /\ SocketClose(DriverSocket)
    /\ UNCHANGED <<viewerVars, driverVars>>

\* refetchInterval: 60000 of the shifts query: a fetch starts; a query that
\* has no data yet goes back to pending and drops its error
ShiftsFetch ==
    /\ page = "dashboard"
    /\ ~shiftsQuery.isFetching
    /\ shiftsQuery' = [shiftsQuery EXCEPT !.isFetching = TRUE,
                                          !.error = IF shiftsQuery.data = Undefined THEN FALSE ELSE @]
    /\ UNCHANGED <<page, driverIsTransmitting, requests, tracking, coordinates, reads, hookVars>>
    /\ UNCHANGED <<shiftVars, ledgerVars, serverVars, viewerVars>>

\* GET /api/assignments/driver/:driverId/shifts answers with
\* getCurrentAndNextShifts, response.ok, the queryFn returns response.json()
ShiftsSuccess(now) ==
    /\ page = "dashboard"
    /\ shiftsQuery.isFetching
    /\ \E list \in GetActiveAssignmentsByDriverId(assignments, CurrentUser) :
          LET currentTime == FormatTime(now[1], now[2])
              shifts == GetCurrentAndNextShifts(list, currentTime)
          IN /\ res' = [route |-> "shifts", status |-> 200, driverId |-> CurrentUser,
                        now |-> now, currentTime |-> currentTime, activeAssignments |-> list,
                        current |-> shifts.current, next |-> shifts.next]
             /\ shiftsQuery' = [data |-> shifts, isFetching |-> FALSE, error |-> FALSE]
    /\ UNCHANGED <<assignments, nextAssignmentId>>
    /\ UNCHANGED <<page, driverIsTransmitting, requests, tracking, coordinates, reads, hookVars>>
    /\ UNCHANGED <<ledgerVars, serverVars, viewerVars>>

\* the fetch rejects or the route answers 500 (the queryFn throws on
\* !response.ok) and the retries are used up: error is set, data is kept
ShiftsFailure ==
    /\ page = "dashboard"
    /\ shiftsQuery.isFetching
    /\ shiftsQuery' = [shiftsQuery EXCEPT !.isFetching = FALSE, !.error = TRUE]
    /\ UNCHANGED <<page, driverIsTransmitting, requests, tracking, coordinates, reads, hookVars>>
    /\ UNCHANGED <<shiftVars, ledgerVars, serverVars, viewerVars>>

\* a value that `!x` of JavaScript takes as absent
Falsy(x) == x \in {Null, Undefined}

\* isLoading of useQuery: the first fetch of a query without data
ShiftsLoading(q) == q.isFetching /\ q.data = Undefined

\* {shiftsLoading && (spinner)}
ShowsSpinner(q) == ShiftsLoading(q)

\* {!shifts?.current && !shifts?.next && !shiftsLoading && ("Sin Turnos Asignados")}
ShowsNoShifts(q) ==
    /\ q.data = Undefined \/ Falsy(q.data.current)
    /\ q.data = Undefined \/ Falsy(q.data.next)
    /\ ~ShiftsLoading(q)

\* {shiftsError && ("Error: ...")} inside the no-shifts card
ShowsError(q) == ShowsNoShifts(q) /\ q.error

\* the assignments an administrator creates for the driver of the tab
PanelInputs ==
    {a \in AssignmentInputs : a.driverId = CurrentUser /\ a.assignedDate = Today /\ a.isActive}

\* the sequence without its i-th element
Without(queue, i) == SubSeq(queue, 1, i - 1) \o SubSeq(queue, i + 1, Len(queue))

\* the messages of the socket arrive in the order sent, the HTTP requests in any order
Deliverable(i) ==
    \/ requests[i].kind \in {"postLocations", "stopTransmission"}
    \/ \A j \in 1..(i - 1) : requests[j].kind \in {"postLocations", "stopTransmission"}

\* the server handles a request or message of the tab
Deliver(i) ==
    /\ i \in 1..Len(requests)
    /\ Deliverable(i)
    /\ requests' = Without(requests, i)
    /\ CASE requests[i].kind = "postLocations" ->
               PostLocations(DriverLocation(requests[i].coords, requests[i].isTransmitting))
         [] requests[i].kind = "stopTransmission" ->
               PostStopTransmission(CurrentUser)
         [] requests[i].kind = "wsLocationUpdate" ->
               WsLocationUpdate(DriverSocket,
                                DriverLocation(requests[i].coords, requests[i].isTransmitting))
         [] requests[i].kind = "wsTransmissionStatus" ->
               WsTransmissionStatus(DriverSocket, CurrentUser, requests[i].isTransmitting)
    /\ UNCHANGED <<page, driverIsTransmitting, tracking, coordinates, reads, shiftsQuery, hookVars>>
    /\ UNCHANGED viewerVars

----------------------------------------------------------------------------
(* useWebSocket: one instance of the hook in a component, the WebSocket     *)
(* objects it creates and its reconnect timeouts                            *)

\* the WebSocket objects that are CONNECTING or OPEN
Live == {b \in 1..MaxSockets : browserSockets[b] \in {"connecting", "open"}}

\* connect(): nothing if ws.current is OPEN, else ws.current = new WebSocket(wsUrl)
\* with its onopen, onmessage, onclose and onerror
HookConnect ==
    IF wsCurrent # 0 /\ browserSockets[wsCurrent] = "open"
    THEN UNCHANGED <<wsCurrent, browserSockets>>
    ELSE \E b \in 1..MaxSockets :
            /\ browserSockets[b] = "none"
            /\ \A c \in 1..(b - 1) : browserSockets[c] # "none"
            /\ browserSockets' = [browserSockets EXCEPT ![b] = "connecting"]
            /\ wsCurrent' = b

\* useEffect(() => { connect(); ... }, []) when the component mounts
HookMount ==
    /\ mounted = "no"
    /\ mounted' = "yes"
    /\ HookConnect
    /\ UNCHANGED <<timers, isConnected>>
    /\ UNCHANGED <<page, driverIsTransmitting, requests, tracking, coordinates, reads, shiftsQuery>>
    /\ UNCHANGED <<shiftVars, ledgerVars, serverVars, viewerVars>>

\* the server accepts the connection (wss.on('connection')) and onopen runs:
\* setIsConnected(true)
HookSocketOpen(b) ==
    /\ browserSockets[b] = "connecting"
    /\ browserSockets' = [browserSockets EXCEPT ![b] = "open"]
    /\ isConnected' = TRUE
    /\ \E id \in ConnectionIds : Connection(b, id)
    /\ UNCHANGED <<mounted, wsCurrent, timers>>
    /\ UNCHANGED <<page, driverIsTransmitting, requests, tracking, coordinates, reads, shiftsQuery>>
    /\ UNCHANGED viewerVars

\* the browser ends a connection that failed, that the server or the network
\* closed, or that close() began to close: onclose runs setIsConnected(false) and sets the timeout of
\* 3 s that calls connect()
HookSocketClose(b) ==
    /\ browserSockets[b] \in {"connecting", "open", "closing"}
    /\ browserSockets' = [browserSockets EXCEPT ![b] = "closed"]
    /\ isConnected' = FALSE
    /\ timers' = timers + 1
    /\ UNCHANGED <<mounted, wsCurrent>>
    /\ UNCHANGED <<page, driverIsTransmitting, requests, tracking, coordinates, reads, shiftsQuery>>
    /\ UNCHANGED <<shiftVars, ledgerVars, serverVars, viewerVars>>

\* a timeout of onclose fires: connect()
HookTimeout ==
    /\ timers > 0
    /\ timers' = timers - 1
    /\ HookConnect
    /\ UNCHANGED <<mounted, isConnected>>
    /\ UNCHANGED <<page, driverIsTransmitting, requests, tracking, coordinates, reads, shiftsQuery>>
    /\ UNCHANGED <<shiftVars, ledgerVars, serverVars, viewerVars>>

\* the component unmounts: the cleanup of the effect calls disconnect():
\* ws.current?.close(); ws.current = null; setIsConnected(false)
HookUnmount ==
    /\ mounted = "yes"
    /\ mounted' = "unmounted"
    /\ browserSockets' =
          IF wsCurrent # 0 /\ browserSockets[wsCurrent] \in {"connecting", "open"}
          THEN [browserSockets EXCEPT ![wsCurrent] = "closing"]
          ELSE browserSockets
    /\ wsCurrent' = 0
    /\ isConnected' = FALSE
    /\ UNCHANGED timers
    /\ UNCHANGED <<page, driverIsTransmitting, requests, tracking, coordinates, reads, shiftsQuery>>
    /\ UNCHANGED <<shiftVars, ledgerVars, serverVars, viewerVars>>

----------------------------------------------------------------------------

Init ==
    /\ assignments = {}
    /\ nextAssignmentId = 1
    /\ res = NoResponse
    /\ locations = {}
    /\ nextLocationId = 1
    /\ clock = 0
    /\ calls = [c \in 1..MaxCalls |-> IdleCall]
    /\ lastCall = [d \in DriverIds |-> NoCall]
    /\ sockets = [s \in 1..MaxSockets |-> NoSocket]
    /\ driverConnections = [id \in ConnectionIds |-> 0]
    /\ out = NoOut
    /\ implementation = "none"
    /\ activeLocations = {}
    /\ locationsQuery = {}
    /\ inbox = <<>>
    /\ awaiting = NoAwait
    /\ page = "login"
    /\ driverIsTransmitting = FALSE
    /\ requests = <<>>
    /\ tracking = [active |-> FALSE, isTransmitting |-> FALSE, stopped |-> FALSE]
    /\ coordinates = NoCoordinates
    /\ reads = 0
    /\ shiftsQuery = NoQuery
    /\ mounted = "no"
    /\ wsCurrent = 0
    /\ browserSockets = [b \in 1..MaxSockets |-> "none"]
    /\ timers = 0
    /\ isConnected = FALSE

ShiftNext ==
    \/ \E d \in DriverIds, now \in Nows : GetShifts(d, now)
    \/ \E a \in AssignmentInputs :
          CreateAssignment(a.driverId, a.shift, a.assignedDate, a.isActive)
    \/ \E id \in 1..MaxAssignments : DeleteAssignment(id)

SpecShifts == Init /\ [][ShiftNext]_vars

\* MaxCalls calls of updateDriverLocation and any number of flag updates as
\* the event loop interleaves them: every await is a point where another
\* handler may run
LedgerNext ==
    \/ \E c \in 1..MaxCalls, loc \in InsertLocations : UpsertSelect(c, loc)
    \/ \E c \in 1..MaxCalls : UpsertWrite(c)
    \/ \E d \in DriverIds, b \in BOOLEAN : SetDriverTransmissionStatus(d, b)
    \/ \E d \in DriverIds : StopDriverTransmission(d)
    \/ Tick

Spec == Init /\ [][LedgerNext]_vars

\* the Ledger calls executed one after the other
SeqNext ==
    \/ \E loc \in InsertLocations : UpdateDriverLocation(loc)
    \/ \E d \in DriverIds, b \in BOOLEAN : NoCallInFlight /\ SetDriverTransmissionStatus(d, b)
    \/ \E d \in DriverIds : NoCallInFlight /\ StopDriverTransmission(d)
    \/ Tick

SpecSeq == Init /\ [][SeqNext]_vars

\* the handlers of the server, each run from start to end
ServerNext ==
    \/ \E s \in 1..MaxSockets, id \in ConnectionIds :
          Connection(s, id) /\ UNCHANGED <<viewerVars, driverVars>>
    \/ \E s \in 1..MaxSockets :
          SocketClosing(s) /\ UNCHANGED <<viewerVars, driverVars>>
    \/ \E s \in 1..MaxSockets :
          SocketClose(s) /\ UNCHANGED <<viewerVars, driverVars>>
    \/ \E body \in ServerLocations \cup {Malformed} :
          PostLocations(body) /\ UNCHANGED <<viewerVars, driverVars>>
    \/ \E d \in ServerDrivers \cup {Malformed.driverId} :
          PostStopTransmission(d) /\ UNCHANGED <<viewerVars, driverVars>>
    \/ \E s \in 1..MaxSockets, loc \in ServerLocations :
          WsLocationUpdate(s, loc) /\ UNCHANGED <<viewerVars, driverVars>>
    \/ \E s \in 1..MaxSockets, d \in ServerDrivers \cap Users, b \in BOOLEAN :
          WsTransmissionStatus(s, d, b) /\ UNCHANGED <<viewerVars, driverVars>>
    \/ \E s \in 1..MaxSockets :
          WsMalformed(s) /\ UNCHANGED <<viewerVars, driverVars>>

SpecServer == Init /\ [][ServerNext]_vars

\* one viewer, and clients that post locations and stop-transmission
ViewerNext ==
    \/ \E impl \in Implementations : Mount(impl)
    \/ ViewerConnect
    \/ \E body \in ViewerLocations : ViewerPostLocations(body)
    \/ \E d \in ViewerDrivers : ViewerPostStopTransmission(d)
    \/ \E d \in ViewerDrivers, b \in BOOLEAN : ViewerWsTransmissionStatus(d, b)
    \/ Broadcast
    \/ OnMessage
    \/ Refetch

SpecViewer == Init /\ [][ViewerNext]_vars

\* one driver's tab and the server
DriverNext ==
    \/ Login
    \/ DriverConnect
    \/ StartTransmission
    \/ LocationSample
    \/ ForceLocationUpdate
    \/ ForcedPosition
    \/ StopTransmission
    \/ Logout
    \/ LoggedOut
    \/ ClosePage
    \/ DriverSocketClose
    \/ \E i \in 1..MaxRequests : Deliver(i)
    \/ Tick

SpecDriver == Init /\ [][DriverNext]_vars

\* the shift panel of the driver's tab, the assignments table and the clock of the server
PanelNext ==
    \/ Login
    \/ \E a \in PanelInputs : CreateAssignment(a.driverId, a.shift, a.assignedDate, a.isActive)
    \/ \E id \in 1..MaxAssignments : DeleteAssignment(id)
    \/ ShiftsFetch
    \/ \E now \in Nows : ShiftsSuccess(now)
    \/ ShiftsFailure

SpecPanel == Init /\ [][PanelNext]_vars

\* one instance of useWebSocket
HookNext ==
    \/ HookMount
    \/ \E b \in 1..MaxSockets : HookSocketOpen(b)
    \/ \E b \in 1..MaxSockets : HookSocketClose(b)
    \/ \E s \in 1..MaxSockets : SocketClosing(s) /\ UNCHANGED <<viewerVars, driverVars>>
    \/ \E s \in 1..MaxSockets : SocketClose(s) /\ UNCHANGED <<viewerVars, driverVars>>
    \/ HookTimeout
    \/ HookUnmount

SpecHook == Init /\ [][HookNext]_vars

\* the timer of refetchInterval keeps firing and the event loop keeps
\* handling the messages of the socket
SpecViewerFair == SpecViewer /\ WF_vars(Refetch) /\ WF_vars(OnMessage) /\ WF_vars(Broadcast)

----------------------------------------------------------------------------
(* Properties of the shift resolver.  Times of day are compared here as    *)
(* minutes since midnight, not as strings.                                 *)

Minutes(s) == (s[1] * 10 + s[2]) * 60 + s[4] * 10 + s[5]

\* shiftStart <= t <= shiftEnd as times of day
InInterval(a, t) == Minutes(a.shiftStart) <= t /\ t <= Minutes(a.shiftEnd)

StartsAfter(a, t) == Minutes(a.shiftStart) > t

\* the active assignments of the driver the last shifts request was about
Active == ActiveRows(assignments, res.driverId)

\* the wall clock reading the last shifts request was served at, in minutes since midnight
Now == res.now[1] * 60 + res.now[2]

\* C4: current is the earliest-starting active assignment whose interval
\* [shiftStart, shiftEnd] contains now (both ends inclusive, the first match of
\* the ordered list), and current is null exactly when no interval contains now.
C4_CurrentIsEarliestContaining ==
    res.route = "shifts" =>
        /\ (res.current = Null) <=> ~(\E a \in Active : InInterval(a, Now))
        /\ res.current # Null =>
              /\ res.current \in Active
              /\ InInterval(res.current, Now)
              /\ \A a \in Active : InInterval(a, Now) =>
                    Minutes(res.current.shiftStart) <= Minutes(a.shiftStart)
              /\ \A i \in 1..Len(res.activeAssignments) :
                    InInterval(res.activeAssignments[i], Now) =>
                        \E j \in 1..i : res.activeAssignments[j] = res.current

\* two active assignments overlap now, one of them starting exactly at now or
\* ending exactly at now, and the earlier one is current
C4_Witness ==
    /\ res.route = "shifts"
    /\ res.current # Null
    /\ \E a \in Active : /\ a # res.current
                         /\ InInterval(a, Now)
                         /\ Minutes(res.current.shiftStart) < Minutes(a.shiftStart)
    /\ \E a \in Active : Minutes(a.shiftStart) = Now \/ Minutes(a.shiftEnd) = Now

\* C5: when some active assignment starts strictly after now, next is the
\* one with the smallest such shiftStart (never one that starts at or before now).
C5_NextIsEarliestFuture ==
    (res.route = "shifts" /\ \E a \in Active : StartsAfter(a, Now)) =>
        /\ res.next \in Active
        /\ StartsAfter(res.next, Now)
        /\ \A a \in Active : StartsAfter(a, Now) =>
              Minutes(res.next.shiftStart) <= Minutes(a.shiftStart)

\* an assignment starts exactly at now, another one later, and next is the later one
C5_Witness ==
    /\ res.route = "shifts"
    /\ \E a \in Active : Minutes(a.shiftStart) = Now
    /\ res.next \in Active
    /\ StartsAfter(res.next, Now)

\* C6: wraparound: with a non-empty list and no assignment starting strictly
\* after now, next is an assignment with the minimum shiftStart of the whole
\* list; next is never null when the driver has an active assignment.
C6_NextWrapsToEarliest ==
    (res.route = "shifts" /\ Active # {}) =>
        /\ res.next # Null
        /\ (~\E a \in Active : StartsAfter(a, Now)) =>
              /\ res.next \in Active
              /\ \A a \in Active : Minutes(res.next.shiftStart) <= Minutes(a.shiftStart)

\* two active assignments with different starts, both started, next is the earlier
C6_Witness ==
    /\ res.route = "shifts"
    /\ ~\E a \in Active : StartsAfter(a, Now)
    /\ \E a, b \in Active : Minutes(a.shiftStart) < Minutes(b.shiftStart) /\ res.next = a

\* the driver's active assignments are exactly A = 08:00-12:00 and B = 13:00-17:00
IsShift(a, start, end) == a # Null /\ a.shiftStart = start /\ a.shiftEnd = end

ScenarioAB ==
    /\ res.route = "shifts"
    /\ Cardinality(Active) = 2
    /\ \E a \in Active : IsShift(a, T0800, T1200)
    /\ \E b \in Active : IsShift(b, T1300, T1700)

\* C7: with exactly A = 08:00-12:00 and B = 13:00-17:00 the resolver returns
\* (A, B) at 10:30, (null, B) at 12:30 and (null, A) at 18:00.
C7_ScenarioAB ==
    ScenarioAB =>
        /\ res.now = <<10, 30>> => IsShift(res.current, T0800, T1200) /\ IsShift(res.next, T1300, T1700)
        /\ res.now = <<12, 30>> => res.current = Null /\ IsShift(res.next, T1300, T1700)
        /\ res.now = <<18, 0>> => res.current = Null /\ IsShift(res.next, T0800, T1200)

\* the scenario at 18:00, past all shifts
C7_Witness == ScenarioAB /\ res.now = <<18, 0>> /\ res.current = Null /\ res.next \in Active

\* C8: resolving shifts for a driver with zero active assignments (a driver
\* id that does not exist included) answers 200 with { current: null, next: null }.
C8_NoAssignmentsIsEmptyResult ==
    (res.route = "shifts" /\ Active = {}) =>
        /\ res.status = 200
        /\ res.current = Null
        /\ res.next = Null

\* a request for the driver id that does not exist, while other drivers have shifts
C8_Witness ==
    /\ res.route = "shifts"
    /\ res.driverId = UnknownDriver
    /\ assignments # {}
    /\ res.status = 200
    /\ res.next = Null

----------------------------------------------------------------------------
(* Properties of the Location Ledger                                       *)

RecordsOf(d) == RowsOfDriver(locations, d)

\* the driver ids some completed Ledger write call was about
Mentioned == {d \in DriverIds : lastCall[d].op # "none"}

\* the driver ids some updateDriverLocation call has written a row for
Upserted == {d \in DriverIds : lastCall[d].upserts > 0}

\* C1: when concurrent updateDriverLocation calls for one driver id have all
\* returned, the Ledger holds at most one record for that driver.
C1_ConcurrentUpsertsKeepOneRecord ==
    NoCallInFlight => \A d \in DriverIds : Cardinality(RecordsOf(d)) <= 1

\* C2: under sequentially executed calls no two records of the Ledger have
\* the same driverId, whatever number of upserts the driver has received.
C2_OneRecordPerDriver ==
    \A r1, r2 \in locations : r1.driverId = r2.driverId => r1 = r2

\* a driver that has received a second upsert and has its one record
C2_Witness ==
    \E d \in Users : lastCall[d].op = "upsert" /\ lastCall[d].upserts = 2 /\ Cardinality(RecordsOf(d)) = 1

\* C3 as stated: the Ledger contains exactly as many records as there are
\* distinct driver ids mentioned by the upsert and setTransmitting calls.
C3_ExactlyNRecords ==
    Cardinality(locations) = Cardinality(Mentioned)

\* C3 as amended: the Ledger contains exactly one record per driver id that
\* was the target of a successful upsert and no other record, hence at most
\* as many records as driver ids mentioned.
C3_OneRecordPerUpsertedDriver ==
    /\ \A d \in DriverIds : Cardinality(RecordsOf(d)) = IF d \in Upserted THEN 1 ELSE 0
    /\ Cardinality(locations) = Cardinality(Upserted)
    /\ Cardinality(locations) <= Cardinality(Mentioned)

\* one driver upserted more than once, another one only ever the target of setTransmitting
C3_Witness ==
    \E d, e \in Users :
        /\ lastCall[d].upserts = 2
        /\ lastCall[e].op = "setTransmitting" /\ lastCall[e].upserts = 0
        /\ Cardinality(locations) = 1
        /\ Cardinality(Mentioned) >= 2

\* C9: when the last write applied for driver D is an upsert, get(D) returns
\* the latitude, longitude and isTransmitting of that upsert, and
\* listTransmitting holds exactly one record of D if that flag is true (none
\* if it is false).
C9_GetReturnsLastUpsert ==
    \A d \in DriverIds : lastCall[d].op = "upsert" =>
        /\ \A r \in GetDriverLocation(locations, d) :
              /\ r # Null
              /\ r.latitude = lastCall[d].latitude
              /\ r.longitude = lastCall[d].longitude
              /\ r.isTransmitting = lastCall[d].isTransmitting
        /\ Cardinality({r \in GetAllActiveLocations(locations) : r.driverId = d}) =
              IF lastCall[d].isTransmitting THEN 1 ELSE 0

\* the scenario: a second, different upsert ("10.6", "-74.3", true) for a driver
C9_Witness ==
    \E d \in Users :
        /\ lastCall[d].op = "upsert" /\ lastCall[d].upserts = 2 /\ ~lastCall[d].same
        /\ lastCall[d].latitude = "10.6" /\ lastCall[d].longitude = "-74.3"
        /\ lastCall[d].isTransmitting
        /\ \E r \in GetAllActiveLocations(locations) : r.driverId = d /\ r.latitude = "10.6"

\* the last completed write for the driver of loc is an upsert with the arguments loc
RepeatsLastCall(loc) ==
    /\ lastCall[loc.driverId].op = "upsert"
    /\ lastCall[loc.driverId].latitude = loc.latitude
    /\ lastCall[loc.driverId].longitude = loc.longitude
    /\ lastCall[loc.driverId].isTransmitting = loc.isTransmitting

\* C10: an upsert that repeats the arguments of the upsert just before it
\* for the same driver leaves exactly one record for the driver, the same
\* row with the same coordinates and flag as after the first call, and with
\* the time of the second call as its timestamp.
C10_UpsertIdempotent ==
    [][\A loc \in InsertLocations :
          (RepeatsLastCall(loc) /\ UpdateDriverLocation(loc)) =>
              /\ Cardinality(RowsOfDriver(locations', loc.driverId)) = 1
              /\ \A new \in RowsOfDriver(locations', loc.driverId) :
                    /\ \E old \in RecordsOf(loc.driverId) :
                          /\ new.id = old.id
                          /\ new.latitude = old.latitude
                          /\ new.longitude = old.longitude
                          /\ new.isTransmitting = old.isTransmitting
                    /\ new.latitude = loc.latitude
                    /\ new.longitude = loc.longitude
                    /\ new.isTransmitting = loc.isTransmitting
                    /\ new.timestamp = clock]_vars

\* a driver whose last two calls are identical upserts, the second one made
\* after the clock has advanced
C10_Witness ==
    \E d \in Users :
        /\ lastCall[d].op = "upsert" /\ lastCall[d].same /\ lastCall[d].upserts = 2
        /\ \E r \in RecordsOf(d) : r.timestamp = clock /\ clock > 0

----------------------------------------------------------------------------
(* Properties of the flag updates of the Ledger. Specification: SpecSeq     *)

\* the step keeps the rows, their drivers and coordinates, and every field
\* of the rows of the drivers other than d
FlagUpdateFrame(d) ==
    /\ {r.id : r \in locations'} = {r.id : r \in locations}
    /\ \A new \in locations' : \E old \in locations :
          /\ new.id = old.id
          /\ new.driverId = old.driverId
          /\ new.latitude = old.latitude
          /\ new.longitude = old.longitude
          /\ old.driverId # d => new = old

\* C11: setDriverTransmissionStatus(d, b) and stopDriverTransmission(d)
\* change nothing but isTransmitting and timestamp of the record of d:
\* its coordinates and every field of every other driver's record stay.
C11_FlagUpdateChangesFlagAndTimestampOnly ==
    [][\A d \in DriverIds :
          ((\E b \in BOOLEAN : SetDriverTransmissionStatus(d, b)) \/ StopDriverTransmission(d))
              => FlagUpdateFrame(d)]_vars

\* the flag of a driver with a record was just switched off at a later time
\* than the one at which another driver's record, still transmitting, was written
C11_Witness ==
    \E d \in Users, e \in Users :
        /\ d # e
        /\ lastCall[d].op \in {"setTransmitting", "stop"}
        /\ \E r \in RecordsOf(d) : ~r.isTransmitting /\ r.latitude # "" /\ r.timestamp = 1
        /\ \E r \in RecordsOf(e) : r.isTransmitting /\ r.timestamp = 0

----------------------------------------------------------------------------
(* Properties of the server handlers. Specification: SpecServer            *)

\* C12 as stated: a write for a driver id that matches no user succeeds and
\* its effect is recorded.
C12_UnknownDriverWriteRecorded ==
    (out.handler \in {"postLocations", "wsLocationUpdate"} /\ ~out.malformed
        /\ out.driverId \notin Users)
        => /\ out.wrote
           /\ RecordsOf(out.driverId) # {}

\* C12 amended: the Ledger code does not look the driver up, but the table
\* does: no record of a driver id that matches no user is ever stored, an
\* upsert for such an id fails (POST /api/locations answers 400, the
\* WebSocket handler sends nothing), and the flag update of
\* stop-transmission for it succeeds and changes no record.
C12_UnknownDriverNeverStored ==
    /\ \A r \in locations : r.driverId \in Users
    /\ (~out.malformed /\ out.driverId \notin Users) =>
          /\ out.handler = "postLocations" => (~out.wrote /\ out.status = 400)
          /\ out.handler = "wsLocationUpdate" => (~out.wrote /\ out.event = "none")
          /\ out.handler = "stopTransmission" => (out.wrote /\ out.status = 200)

\* POST /api/locations for the unknown driver was answered 400 while a
\* known driver has a record
C12_Witness ==
    /\ out.handler = "postLocations" /\ out.driverId = UnknownDriver /\ out.status = 400
    /\ \E d \in Users : RecordsOf(d) # {}

\* the event each writing handler broadcasts
EventOf(handler) ==
    CASE handler = "postLocations" -> "locationUpdate"
      [] handler = "wsLocationUpdate" -> "locationUpdate"
      [] handler = "wsTransmissionStatus" -> "transmissionStatusUpdate"
      [] handler = "stopTransmission" -> "transmissionStopped"
      [] OTHER -> "none"

\* C15: a handler whose Ledger write succeeded has broadcast the event of
\* that write before it ended, and no handler outside the four write paths
\* reports a write.
C15_WriteFollowedByBroadcast ==
    out.wrote => /\ EventOf(out.handler) # "none"
                 /\ out.event = EventOf(out.handler)

\* a transmissionStatus message was written and its update reached two
\* open connections
C15_Witness ==
    /\ out.handler = "wsTransmissionStatus" /\ out.wrote
    /\ out.event = "transmissionStatusUpdate"
    /\ Cardinality(out.sentTo) = 2

\* the connections that are in the registry and open
RegisteredOpen ==
    {s \in 1..MaxSockets :
        sockets[s].readyState = "open" /\ \E id \in ConnectionIds : driverConnections[id] = s}

\* C16 as stated: a broadcast reaches every registered open connection; the
\* one of a WebSocket locationUpdate reaches every registered open
\* connection but the one the message came from.
C16_BroadcastReachesEveryOpenConnection ==
    [][/\ \A s \in 1..MaxSockets, loc \in ServerLocations :
             (WsLocationUpdate(s, loc) /\ out'.wrote) => out'.sentTo = RegisteredOpen \ {s}
       /\ \A s \in 1..MaxSockets, d \in ServerDrivers \cap Users, b \in BOOLEAN :
             WsTransmissionStatus(s, d, b) => out'.sentTo = RegisteredOpen
       /\ \A body \in ServerLocations :
             (PostLocations(body) /\ out'.wrote) => out'.sentTo = RegisteredOpen
       /\ \A d \in ServerDrivers :
             PostStopTransmission(d) => out'.sentTo = RegisteredOpen]_vars

\* the connections that have connected and whose close event has not fired
Connected == {s \in 1..MaxSockets : sockets[s].readyState \in {"open", "closing"}}

\* C17 as stated: the registry holds exactly the connections that have
\* connected and not yet closed.
C17_RegistryIsConnected ==
    {driverConnections[id] : id \in Entries} = Connected

\* the Ledger rows agree before and after the step but for their timestamps
SameButTimestamp ==
    /\ Cardinality(locations') = Cardinality(locations)
    /\ \A new \in locations' : \E old \in locations :
          [new EXCEPT !.timestamp = 0] = [old EXCEPT !.timestamp = 0]

\* C19: POST /api/locations/stop-transmission for driver d answers 200 and
\* leaves every record of d not transmitting, whether or not d has a record
\* or transmits; run again right after itself it leaves the number of
\* records, their coordinates and their flags as the first run left them.
C19_StopIdempotent ==
    [][\A d \in ServerDrivers :
          PostStopTransmission(d) =>
              /\ out'.status = 200
              /\ \A r \in RowsOfDriver(locations', d) : ~r.isTransmitting
              /\ (out.handler = "stopTransmission" /\ out.driverId = d) => SameButTimestamp]_vars

\* stop-transmission ran twice in a row for a driver with a record
C19_Witness ==
    /\ out.handler = "stopTransmission" /\ out.status = 200
    /\ out.driverId \in Users
    /\ lastCall[out.driverId].op = "stop" /\ lastCall[out.driverId].same
    /\ \E r \in RecordsOf(out.driverId) : r.latitude # "" /\ ~r.isTransmitting

\* C20 as stated: malformed input is rejected with nothing written, nothing
\* broadcast and a structured error returned to the sender.
C20_MalformedRejectedWithError ==
    out.malformed => /\ ~out.wrote
                     /\ out.event = "none"
                     /\ out.status = 400

----------------------------------------------------------------------------
(* Properties of a viewer. Specifications: SpecViewer, SpecViewerFair       *)

\* the viewer's local list has an entry for driver d
Local(d) == \E e \in activeLocations : e.driverId = d

\* the latest result of GET /api/locations has driver d
Pulled(d) == \E e \in locationsQuery : e.driverId = d

\* C13 as stated: once the viewer has handled transmissionStopped for a
\* driver, its activeLocations has no entry for that driver, whichever
\* component it runs.
C13_StoppedDriverAbsent ==
    [][(OnMessage /\ Head(inbox).type = "transmissionStopped")
          => \A e \in activeLocations' : e.driverId # Head(inbox).data.driverId]_vars

\* C14 as stated: a driver that the local list has and the latest pull has
\* not is eventually dropped from the local list (or pulled again).
C14_StaleEntryEventuallyDropped ==
    \A d \in Users : (Local(d) /\ ~Pulled(d)) ~> (~Local(d) \/ Pulled(d))

----------------------------------------------------------------------------
(* Properties of the driver's tab. Specification: SpecDriver                *)

\* C18 as stated: when a transmitting driver logs out or the page is closed,
\* a stop-transmission request for the driver is sent in that step.
C18_TeardownSendsStop ==
    [][(page = "dashboard" /\ driverIsTransmitting /\ page' # "dashboard")
          => /\ Len(requests') = Len(requests) + 1
             /\ requests'[Len(requests')] = Request("stopTransmission", FALSE)]_vars

----------------------------------------------------------------------------
(* Further properties of the shift resolver. Specification: SpecShifts      *)

\* shiftEnd sorts before shiftStart: a shift that ends on the next day
Overnight(a) == StrLess(a.shiftEnd, a.shiftStart)

\* C21 as stated: a shifts request over a list with an overnight assignment
\* fails instead of answering a current and next.
C21_OvernightShiftFailsResolve ==
    (res.route = "shifts" /\ \E a \in Active : Overnight(a)) => res.status # 200

\* the rows with the assignedDate of each replaced by the one f gives its id
Redated(rows, f) == {[a EXCEPT !.assignedDate = f[a.id]] : a \in rows}

\* the ids of the elements of a list, in order
IdsOf(list) == [i \in 1..Len(list) |-> list[i].id]

Patched(prev, data) ==
    {IF e.driverId = data.driverId THEN [e EXCEPT !.isTransmitting = data.isTransmitting] ELSE e :
        e \in prev}

\* C23: when a viewer handles a transmissionStatusUpdate event for a driver,
\* its local entry for that driver takes the event's flag, the other entries
\* stay as they are, and a list without an entry for the driver is unchanged
C23_StatusUpdatePatchesEntry ==
    [][(OnMessage /\ Head(inbox).type = "transmissionStatusUpdate")
          => activeLocations' = Patched(activeLocations, Head(inbox).data)]_vars

\* the event a handler has just sent to the viewer
Sent == inbox'[Len(inbox')]

MapEntries(impl, driverId) ==
    LET pulled == Cardinality({e \in locationsQuery : e.driverId = driverId})
        pulledTransmitting ==
            Cardinality({e \in locationsQuery : e.driverId = driverId /\ e.isTransmitting})
        pushed == Cardinality({e \in activeLocations : e.driverId = driverId})
    IN  IF impl = "adminDashboard" THEN pulledTransmitting
        ELSE IF impl = "adminPart008" THEN pulled + pushed
        ELSE pushed

\* C30: the list a viewer hands to the map holds at most one entry per driver
C30_OneMapEntryPerDriver ==
    \A d \in Users : MapEntries(implementation, d) <= 1

----------------------------------------------------------------------------
(* Further properties of the driver's tab. Specification: SpecDriver        *)

\* the number of POST /api/locations with isTransmitting true in a queue
PostsTrue(queue) ==
    Cardinality({i \in 1..Len(queue) :
                    queue[i].kind = "postLocations" /\ queue[i].isTransmitting})

\* C25 as stated: every position the tab obtains while tracking runs is
\* posted to /api/locations with isTransmitting true.
C25_EverySamplePosted ==
    [][LocationSample => PostsTrue(requests') = PostsTrue(requests) + 1]_vars

\* C26: the table locations changes only in a step in which the server
\* handles a request or message that writes; the close of the driver's
\* connection, the close of the page and the passage of time leave every
\* row as it is
C26_FlagChangesByWritesOnly ==
    [][/\ locations' # locations => \E i \in 1..Len(requests) : Deliver(i)
       /\ (DriverSocketClose \/ ClosePage \/ Tick) => locations' = locations]_vars

\* the connection of the driver is closed, time has passed since the last
\* write, and the row of the driver still says transmitting
C26_Witness ==
    /\ sockets[DriverSocket].readyState = "closed"
    /\ page = "closed"
    /\ \E r \in RowsOfDriver(locations, CurrentUser) : r.isTransmitting /\ r.timestamp < clock

\* C27 as stated: when the driver has switched transmission off and nothing
\* the tab sent or is about to send is outstanding, no row of the driver
\* says transmitting.
C27_StoppedAndQuietMeansOff ==
    (/\ page = "dashboard"
     /\ tracking.stopped
     /\ ~driverIsTransmitting
     /\ requests = <<>>
     /\ reads = 0)
        => \A r \in RowsOfDriver(locations, CurrentUser) : ~r.isTransmitting

----------------------------------------------------------------------------
(* Properties of the shift panel. Specification: SpecPanel                  *)

\* C24 as stated: the panel never shows the spinner and the no-shifts
\* message together; the no-shifts message is shown only for a query that
\* succeeded with current = next = null, never for a query that failed.
C24_NoShiftsOnlyWhenConfirmedEmpty ==
    page = "dashboard" =>
        /\ ~(ShowsSpinner(shiftsQuery) /\ ShowsNoShifts(shiftsQuery))
        /\ ShowsNoShifts(shiftsQuery) =>
              /\ ~shiftsQuery.error
              /\ shiftsQuery.data # Undefined
              /\ shiftsQuery.data.current = Null
              /\ shiftsQuery.data.next = Null

----------------------------------------------------------------------------
(* Properties of useWebSocket. Specification: SpecHook                      *)

\* C29 as stated: once the component is unmounted and disconnect() has run,
\* the hook creates no WebSocket any more, and at no time are two of its
\* WebSockets connecting or open.
C29_NoConnectionAfterDisconnect ==
    [][/\ mounted = "unmounted"
            => \A b \in 1..MaxSockets :
                  browserSockets[b] = "none" => browserSockets'[b] = "none"
       /\ Cardinality(Live') <= 1]_vars

====
